---- MODULE Spec2Model ----
(***************************************************************************)
(* Roster coordination of cogs/armor_events.py: the EventSignupView of one *)
(* event (commanders, crew slots, recruit pool), the sub-views and modals  *)
(* its buttons open, and the EndEventButton finalize sequence.             *)
(*                                                                         *)
(* The bot runs on one asyncio loop: a callback runs without interruption  *)
(* from one `await` that suspends on Discord to the next, so every action  *)
(* below is one such segment of one callback.  Ephemeral sub-views stay    *)
(* usable until their 300 s timeout, whatever happens to the main view.    *)
(***************************************************************************)
EXTENDS Integers, Sequences, FiniteSets, Bags, TLC

\* ------------------------------------------------------------------ bounds
MAX_CREWS_PER_TEAM == 2
MaxViews == 1
MaxOps == 3
MaxEnds == 2
MaxFails == 1
MaxFailIndex == 1

\* ------------------------------------------------------------- the universe
\* the members who press buttons, and members who only appear in the seeded rosters
Users == {"u1", "u2", "u3"}
Others == {"u4", "u5", "u6", "u7"}
Identities == Users \cup Others
None == "None"
Teams == {"A", "B"}
SlotIdx == 0..(MAX_CREWS_PER_TEAM - 1)
Positions == {"gunner", "driver"}

\* utils.config ADMIN_ROLES and the guild roles each user holds
ADMIN_ROLES == {"Admin"}
UserRoles == [u \in Users |-> IF u = "u1" THEN {"Member", "Admin"} ELSE {"Member"}]

\* what the modal's text input may hold (str.strip() is applied to it)
NameInputs == {"", "Ace"}
\* the members of the guild, and the id of a profile member who is not in it
GuildMembers == Identities
Gone == "gone"
NextUser(u) == IF u = "u1" THEN "u2" ELSE IF u = "u2" THEN "u3" ELSE "u1"
\* crew profiles the external profile store may hold for a commander: a crew with
\* no gunner and driver set, a crew of three, a crew whose gunner left the guild
ProfileKinds == {"solo", "full", "gone"}
ProfileOf(u, kind) ==
    [id |-> "p_" \o u, crew_name |-> "Wolves", commander_id |-> u,
     gunner_id |-> IF kind = "solo" THEN None ELSE IF kind = "full" THEN NextUser(u) ELSE Gone,
     driver_id |-> IF kind = "full" THEN NextUser(NextUser(u)) ELSE None]
ProfileSnapshots(u) == {ProfileOf(u, kind) : kind \in ProfileKinds}
\* get_user_crews(...) filtered to the crews the user commands
ProfileCrewLists(u) == {<<>>} \cup {<<s>> : s \in ProfileSnapshots(u)}

\* an empty entry of crews_a / crews_b (Python None)
NoCrew == [commander |-> None, crew_name |-> None, gunner |-> None,
           driver |-> None, persistent_crew_id |-> None]

VARIABLES
    commander_a, commander_b,   \* EventSignupView.commander_a / commander_b
    crews_a, crews_b,           \* EventSignupView.crews_a / crews_b : SlotIdx -> crew
    recruits,                   \* EventSignupView.recruits (a list)
    crew_select_views,          \* open CrewSelectView (+ DriverSelectView, CrewNameModal)
    team_select_views,          \* open PersistentCrewTeamSelectView
    recruit_views,              \* open RecruitSelectionView (+ PositionSelectView)
    edit_views,                 \* open EditCrewView (+ EditGunnerView / EditDriverView)
    assigning,                  \* Assign*Button callbacks suspended before recruits.remove
    ends,                       \* EndEventButton.callback invocations in flight
    signups, event_status,      \* the signups table rows and events.status of this event
    event_channels, event_category, \* the event's category and the channels under it
    event_roles,                \* the "<title> Allies" / "<title> Axis" roles of the guild
    held_roles,                 \* <<member, role>>: the event roles members hold
    end_budget,                 \* End Event presses by admins that may still come
    fail_budget,                \* external calls of finalize that may still fail
    profile_store,              \* what the CrewManagement store may hold for each commander
    other_view,                 \* the EventSignupView of a second event
    disabled,                   \* item.disabled of the main view's children
    ui_disabled,                \* the signup message shows the disabled controls
    last,                       \* the callback segment that ran last and its reply
    ops                         \* number of user interactions so far

roster == <<commander_a, commander_b, crews_a, crews_b, recruits>>
subviews == <<crew_select_views, team_select_views, recruit_views, edit_views>>
finalize == <<ends, signups, event_status, event_channels, event_category,
              disabled, ui_disabled, end_budget, fail_budget>>
guild_roles == <<event_roles, held_roles>>
\* what no callback of this view writes
environment == <<profile_store, other_view>>
vars == <<roster, subviews, assigning, finalize, guild_roles, environment, last, ops>>

\* what is kept of a callback run: the handler, the reply it sent and the member
\* the reply names
Reply(op, user, res, named) == [op |-> op, res |-> res, named |-> named]
\* every interaction counts against MaxOps, whether it is accepted or refused
Accepted(op, user, res, named) ==
    ops < MaxOps /\ ops' = ops + 1 /\ last' = Reply(op, user, res, named)
Rejected(op, user, res, named) ==
    ops < MaxOps /\ ops' = ops + 1 /\ last' = Reply(op, user, res, named)

crews(team) == IF team = "A" THEN crews_a ELSE crews_b

\* faulty variant: the crew is appended to the list
SetSlot_Append(team, i, value) ==
    IF team = "A"
    THEN /\ crews_a' = [j \in 0..Cardinality(DOMAIN crews_a) |->
                           IF j \in DOMAIN crews_a THEN crews_a[j] ELSE value]
         /\ UNCHANGED crews_b
    ELSE /\ crews_b' = [j \in 0..Cardinality(DOMAIN crews_b) |->
                           IF j \in DOMAIN crews_b THEN crews_b[j] ELSE value]
         /\ UNCHANGED crews_a

\* slot_list[i] = value, for slot_list = crews_a or crews_b
SetSlot(team, i, value) ==
    IF team = "A"
    THEN crews_a' = [crews_a EXCEPT ![i] = value] /\ UNCHANGED crews_b
    ELSE crews_b' = [crews_b EXCEPT ![i] = value] /\ UNCHANGED crews_a

InList(x, list) == \E k \in 1..Len(list) : list[k] = x

\* faulty variant: the last element is moved into the place of the removed one
ListRemove_SwapRemove(list, x) ==
    IF ~InList(x, list) THEN list
    ELSE LET k == CHOOSE i \in 1..Len(list) : list[i] = x /\ \A j \in 1..(i - 1) : list[j] # x
         IN [i \in 1..(Len(list) - 1) |-> IF i = k THEN list[Len(list)] ELSE list[i]]

\* list.remove(x): drops the first occurrence
RECURSIVE ListRemove(_, _)
ListRemove(list, x) ==
    IF list = <<>> THEN <<>>
    ELSE IF Head(list) = x THEN Tail(list)
    ELSE <<Head(list)>> \o ListRemove(Tail(list), x)

CrewMembers(crew) == {crew.commander, crew.gunner, crew.driver}

\* faulty variant: the recruit pool is not looked at
is_user_registered_NoRecruits(user) ==
    \/ user \in {commander_a, commander_b}
    \/ \E i \in SlotIdx : crews_a[i] # NoCrew /\ user \in CrewMembers(crews_a[i])
    \/ \E i \in SlotIdx : crews_b[i] # NoCrew /\ user \in CrewMembers(crews_b[i])

\* EventSignupView.is_user_registered
is_user_registered(user) ==
    \/ user \in {commander_a, commander_b}
    \/ \E i \in SlotIdx : crews_a[i] # NoCrew /\ user \in CrewMembers(crews_a[i])
    \/ \E i \in SlotIdx : crews_b[i] # NoCrew /\ user \in CrewMembers(crews_b[i])
    \/ InList(user, recruits)

\* faulty variant: any member of a crew counts as its commander
CommandedSlots_AnyMember(user) ==
    {<<t, i>> \in Teams \X SlotIdx : crews(t)[i] # NoCrew /\ user \in CrewMembers(crews(t)[i])}

\* EventSignupView.get_user_crew: scans crews_a then crews_b, ascending
CommandedSlots(user) ==
    {<<t, i>> \in Teams \X SlotIdx : crews(t)[i] # NoCrew /\ crews(t)[i].commander = user}
get_user_crew(user) ==
    IF CommandedSlots(user) = {} THEN <<None, -1>>
    ELSE CHOOSE s \in CommandedSlots(user) :
            \A r \in CommandedSlots(user) :
                \/ s[1] = "A" /\ r[1] = "B"
                \/ s[1] = r[1] /\ s[2] <= r[2]

\* EventSignupView.is_user_commander
is_user_commander(user) == get_user_crew(user)[1] # None

OpenViews ==
    Cardinality(crew_select_views) + Cardinality(team_select_views)
    + Cardinality(recruit_views) + Cardinality(edit_views)

\* faulty variant: the scan runs from the highest index down
FindEmptySlot_Highest(slot_list) ==
    IF \A i \in SlotIdx : slot_list[i] # NoCrew THEN -1
    ELSE CHOOSE i \in SlotIdx :
            slot_list[i] = NoCrew /\ \A j \in SlotIdx : j > i => slot_list[j] # NoCrew

\* faulty variant: a full list hands out index 0 again
FindEmptySlot_Overwrite(slot_list) ==
    IF \A i \in SlotIdx : slot_list[i] # NoCrew THEN 0
    ELSE CHOOSE i \in SlotIdx :
            slot_list[i] = NoCrew /\ \A j \in SlotIdx : j < i => slot_list[j] # NoCrew

\* the first index the `for i in range(MAX_CREWS_PER_TEAM)` scan finds empty, or -1
FindEmptySlot(slot_list) ==
    IF \A i \in SlotIdx : slot_list[i] # NoCrew THEN -1
    ELSE CHOOSE i \in SlotIdx :
            slot_list[i] = NoCrew /\ \A j \in SlotIdx : j < i => slot_list[j] # NoCrew

\* guild.get_member(id): the Member, or None when the id is not in the guild cache
get_member(id) == IF id \in GuildMembers THEN id ELSE None

\* the role assign_event_role(user, event_title, team) looks up or creates
TeamRole(team) == IF team = "A" THEN "Allies" ELSE IF team = "B" THEN "Axis" ELSE "Participant"

\* ArmorEvents.assign_event_role for each of `members` (None is skipped: user.guild
\* raises inside the try): a role that is missing is created, then added
assign_event_role(members, team) ==
    /\ held_roles' = held_roles \cup {<<m, TeamRole(team)>> : m \in members \ {None}}
    /\ event_roles' = IF members \ {None} # {} /\ team # None
                      THEN event_roles \cup {TeamRole(team)} ELSE event_roles

\* the event roles remove_event_role(user, event_title) finds on the user
RolesOf(user) == {p \in held_roles : p[1] = user}

\* ---------------------------------------------------------------- main view
\* CommanderSelect.callback
CommanderSelect(user, team) ==
    /\ ~ui_disabled
    /\ IF is_user_registered(user)
       THEN /\ UNCHANGED <<roster, guild_roles>>
            /\ Rejected("CommanderSelect", user, "AlreadyRegistered", None)
       ELSE /\ assign_event_role({user}, team)
            /\ IF team = "A"
               THEN commander_a' = user /\ UNCHANGED commander_b
               ELSE commander_b' = user /\ UNCHANGED commander_a
            /\ UNCHANGED <<crews_a, crews_b, recruits>>
            /\ Accepted("CommanderSelect", user, "ok", None)
    /\ UNCHANGED <<environment, subviews, assigning, finalize>>

\* JoinCrewAButton.callback / JoinCrewBButton.callback
JoinCrewButton(user, team) ==
    /\ ~ui_disabled
    /\ IF is_user_registered(user)
       THEN /\ UNCHANGED <<crew_select_views, guild_roles>>
            /\ Rejected("JoinCrewButton", user, "AlreadyRegistered", None)
       ELSE /\ OpenViews < MaxViews
            /\ assign_event_role({user}, team)
            /\ crew_select_views' = crew_select_views \cup
                  {[team |-> team, commander |-> user, gunner |-> None, modal |-> None]}
            /\ Accepted("JoinCrewButton", user, "ok", None)
    /\ UNCHANGED <<environment, roster, team_select_views, recruit_views, edit_views, assigning, finalize>>

\* faulty variant: some member is registered, the first of the list is reported
FirstRegistered_NamesHead(members) ==
    IF \E k \in 1..Len(members) : members[k] # None /\ is_user_registered(members[k])
    THEN Head(members)
    ELSE None

\* faulty variant: only the first member of the list is checked
FirstRegistered_HeadOnly(members) ==
    IF members # <<>> /\ Head(members) # None /\ is_user_registered(Head(members))
    THEN Head(members)
    ELSE None

\* the first member of the listed crews that resolves and is registered, or None
RECURSIVE FirstRegistered(_)
FirstRegistered(members) ==
    IF members = <<>> THEN None
    ELSE IF Head(members) # None /\ is_user_registered(Head(members)) THEN Head(members)
    ELSE FirstRegistered(Tail(members))

RECURSIVE CrewListMembers(_)
CrewListMembers(crew_list) ==
    IF crew_list = <<>> THEN <<>>
    ELSE LET crew == Head(crew_list) IN
         <<get_member(crew.commander_id), get_member(crew.gunner_id),
           get_member(crew.driver_id)>> \o CrewListMembers(Tail(crew_list))

\* JoinWithCrewButton.callback
JoinWithCrewButton(user, commander_crews) ==
    /\ ~ui_disabled
    /\ IF is_user_registered(user)
       THEN /\ UNCHANGED team_select_views
            /\ Rejected("JoinWithCrewButton", user, "AlreadyRegistered", None)
       ELSE IF commander_crews = <<>>
       THEN /\ UNCHANGED team_select_views
            /\ Rejected("JoinWithCrewButton", user, "NotCommander", None)
       ELSE IF FirstRegistered(CrewListMembers(commander_crews)) # None
       THEN /\ UNCHANGED team_select_views
            /\ Rejected("JoinWithCrewButton", user, "MemberAlreadyRegistered",
                        FirstRegistered(CrewListMembers(commander_crews)))
       ELSE /\ OpenViews < MaxViews
            /\ team_select_views' = team_select_views \cup {[crew |-> commander_crews[1]]}
            /\ Accepted("JoinWithCrewButton", user, "ok", None)
    /\ UNCHANGED <<environment, roster, crew_select_views, recruit_views, edit_views, assigning, finalize,
                   guild_roles>>

\* RecruitMeButton.callback
RecruitMeButton(user) ==
    /\ ~ui_disabled
    /\ IF is_user_registered(user)
       THEN /\ UNCHANGED <<recruits, guild_roles>>
            /\ Rejected("RecruitMeButton", user, "AlreadyRegistered", None)
       ELSE /\ recruits' = Append(recruits, user)
            /\ assign_event_role({user}, None)
            /\ Accepted("RecruitMeButton", user, "ok", None)
    /\ UNCHANGED <<environment, commander_a, commander_b, crews_a, crews_b, subviews, assigning, finalize>>

\* RecruitPlayersButton.callback; RecruitSelectionView.__init__ looks the crew up
RecruitPlayersButton(user) ==
    /\ ~ui_disabled
    /\ IF ~is_user_commander(user)
       THEN /\ UNCHANGED recruit_views
            /\ Rejected("RecruitPlayersButton", user, "NotCommander", None)
       ELSE IF recruits = <<>>
       THEN /\ UNCHANGED recruit_views
            /\ Rejected("RecruitPlayersButton", user, "NoRecruits", None)
       ELSE /\ OpenViews < MaxViews
            /\ recruit_views' = recruit_views \cup
                  {[commander |-> user, team |-> get_user_crew(user)[1],
                    slot_index |-> get_user_crew(user)[2], attached |-> TRUE,
                    options |-> {recruits[k] : k \in 1..Len(recruits)},
                    selected_recruit |-> None]}
            /\ Accepted("RecruitPlayersButton", user, "ok", None)
    /\ UNCHANGED <<environment, roster, crew_select_views, team_select_views, edit_views, assigning, finalize,
                   guild_roles>>

\* EditCrewButton.callback
EditCrewButton(user) ==
    /\ ~ui_disabled
    /\ IF get_user_crew(user)[1] = None
       THEN /\ UNCHANGED edit_views
            /\ Rejected("EditCrewButton", user, "NotCommander", None)
       ELSE /\ OpenViews < MaxViews
            /\ edit_views' = edit_views \cup
                  {[user |-> user, team |-> get_user_crew(user)[1],
                    slot_index |-> get_user_crew(user)[2], attached |-> TRUE]}
            /\ Accepted("EditCrewButton", user, "ok", None)
    /\ UNCHANGED <<environment, roster, crew_select_views, team_select_views, recruit_views, assigning, finalize,
                   guild_roles>>

\* a view that held the dict of a slot keeps the dict when the slot is set to None:
\* from then on its writes reach no entry of crews_a / crews_b
Detach(view_set, cleared) ==
    {IF <<v.team, v.slot_index>> \in cleared THEN [v EXCEPT !.attached = FALSE] ELSE v
        : v \in view_set}

\* faulty variant: only crews_a is scanned
SlotsOf_AlliesOnly(user) ==
    {<<t, i>> \in {"A"} \X SlotIdx :
        crews(t)[i] # NoCrew /\ user \in CrewMembers(crews(t)[i])}

\* faulty variant: only the crews the user commands are released
SlotsOf_CommanderOnly(user) ==
    {<<t, i>> \in Teams \X SlotIdx : crews(t)[i] # NoCrew /\ crews(t)[i].commander = user}

\* the crews the user is in, in any position
SlotsOf(user) ==
    {<<t, i>> \in Teams \X SlotIdx : crews(t)[i] # NoCrew /\ user \in CrewMembers(crews(t)[i])}

\* LeaveEventButton.callback
LeaveEventButton(user) ==
    /\ ~ui_disabled
    /\ IF user = commander_a
       THEN commander_a' = None /\ UNCHANGED commander_b
       ELSE IF user = commander_b
       THEN commander_b' = None /\ UNCHANGED commander_a
       ELSE UNCHANGED <<commander_a, commander_b>>
    /\ crews_a' = [i \in SlotIdx |-> IF <<"A", i>> \in SlotsOf(user) THEN NoCrew ELSE crews_a[i]]
    /\ crews_b' = [i \in SlotIdx |-> IF <<"B", i>> \in SlotsOf(user) THEN NoCrew ELSE crews_b[i]]
    /\ recruits' = ListRemove(recruits, user)
    /\ recruit_views' = Detach(recruit_views, SlotsOf(user))
    /\ edit_views' = Detach(edit_views, SlotsOf(user))
    /\ IF user \in {commander_a, commander_b} \/ SlotsOf(user) # {} \/ InList(user, recruits)
       THEN /\ held_roles' = held_roles \ RolesOf(user)
            /\ Accepted("LeaveEventButton", user, "ok", None)
       ELSE /\ UNCHANGED held_roles
            /\ Rejected("LeaveEventButton", user, "NotRegistered", None)
    /\ UNCHANGED <<environment, crew_select_views, team_select_views, assigning, finalize, event_roles>>

\* ---------------------------------------------------- manual crew creation
\* GunnerSelect.callback (CrewSelectView)
GunnerSelect(v, value) ==
    /\ v \in crew_select_views
    /\ IF is_user_registered(value)
       THEN /\ UNCHANGED <<crew_select_views, guild_roles>>
            /\ Rejected("GunnerSelect", v.commander, "AlreadyRegistered", None)
       ELSE /\ assign_event_role({value}, v.team)
            /\ crew_select_views' = (crew_select_views \ {v}) \cup {[v EXCEPT !.gunner = value]}
            /\ Accepted("GunnerSelect", v.commander, "ok", None)
    /\ UNCHANGED <<environment, roster, team_select_views, recruit_views, edit_views, assigning, finalize>>

\* DriverSelect.callback (DriverSelectView, opened once a gunner was selected);
\* on success it opens the CrewNameModal holding the driver
DriverSelect(v, value) ==
    /\ v \in crew_select_views /\ v.gunner # None
    /\ IF is_user_registered(value)
       THEN /\ UNCHANGED <<crew_select_views, guild_roles>>
            /\ Rejected("DriverSelect", v.commander, "AlreadyRegistered", None)
       ELSE /\ assign_event_role({value}, v.team)
            /\ crew_select_views' = (crew_select_views \ {v}) \cup {[v EXCEPT !.modal = value]}
            /\ Accepted("DriverSelect", v.commander, "ok", None)
    /\ UNCHANGED <<environment, roster, team_select_views, recruit_views, edit_views, assigning, finalize>>

\* str.strip() on the inputs of NameInputs
Strip(s) == IF s = " " THEN "" ELSE s

\* name_input.value.strip() or f"{commander.display_name}'s Crew"
CrewNameOf(name_input, commander) ==
    IF Strip(name_input) = "" THEN commander \o "'s Crew" ELSE Strip(name_input)

\* faulty variant: the crew is linked to a profile of its commander
ManualCrew_Linked(v, crew_name) ==
    [commander |-> v.commander, crew_name |-> crew_name, gunner |-> v.gunner,
     driver |-> v.modal, persistent_crew_id |-> "p_" \o v.commander]

\* the dict on_submit stores: it has no 'persistent_crew_id' key, so
\* slot.get('persistent_crew_id') is None
ManualCrew(v, crew_name) ==
    [commander |-> v.commander, crew_name |-> crew_name, gunner |-> v.gunner,
     driver |-> v.modal, persistent_crew_id |-> None]

\* CrewNameModal.on_submit
CrewNameModal_on_submit(v, name_input) ==
    /\ v \in crew_select_views /\ v.modal # None
    /\ LET slot_list == crews(v.team)
           i == FindEmptySlot(slot_list)
       IN IF i # -1
          THEN /\ SetSlot(v.team, i, ManualCrew(v, CrewNameOf(name_input, v.commander)))
               /\ assign_event_role({v.commander, v.gunner, v.modal}, v.team)
               /\ Accepted("CrewNameModal", v.commander, "ok", None)
          ELSE /\ UNCHANGED <<crews_a, crews_b, guild_roles>>
               /\ Rejected("CrewNameModal", v.commander, "TeamFull", None)
    /\ crew_select_views' = (crew_select_views \ {v}) \cup {[v EXCEPT !.modal = None]}
    /\ UNCHANGED <<environment, commander_a, commander_b, recruits, team_select_views, recruit_views,
                   edit_views, assigning, finalize>>

\* ------------------------------------------------------------- profile join
\* JoinAlliesWithCrewButton.join_with_crew / JoinAxisWithCrewButton.join_with_crew
join_with_crew(v, team) ==
    /\ v \in team_select_views
    /\ LET crew == v.crew
           commander == get_member(crew.commander_id)
           gunner == IF crew.gunner_id # None THEN get_member(crew.gunner_id) ELSE commander
           driver == IF crew.driver_id # None THEN get_member(crew.driver_id) ELSE commander
           slot_list == crews(team)
           empty_slot == FindEmptySlot(slot_list)
       IN IF FirstRegistered(<<commander, gunner, driver>>) # None
          THEN /\ UNCHANGED <<crews_a, crews_b, guild_roles>>
               /\ Rejected("join_with_crew", crew.commander_id, "MemberAlreadyRegistered",
                           FirstRegistered(<<commander, gunner, driver>>))
          ELSE IF empty_slot = -1
          THEN /\ UNCHANGED <<crews_a, crews_b, guild_roles>>
               /\ Rejected("join_with_crew", crew.commander_id, "TeamFull", None)
          ELSE /\ SetSlot(team, empty_slot,
                     [commander |-> commander, crew_name |-> crew.crew_name,
                      gunner |-> gunner, driver |-> driver, persistent_crew_id |-> crew.id])
               /\ assign_event_role({commander, gunner, driver}, team)
               /\ Accepted("join_with_crew", crew.commander_id, "ok", None)
    /\ UNCHANGED <<environment, commander_a, commander_b, recruits, subviews, assigning, finalize>>

\* ------------------------------------------------------- recruit assignment
\* RecruitSelect.callback: the options are the pool at the time the view was built
RecruitSelect(v, selected_id) ==
    /\ v \in recruit_views /\ selected_id \in v.options
    /\ IF InList(selected_id, recruits)
       THEN /\ recruit_views' = (recruit_views \ {v}) \cup {[v EXCEPT !.selected_recruit = selected_id]}
            /\ Accepted("RecruitSelect", v.commander, "ok", None)
       ELSE /\ UNCHANGED recruit_views
            /\ Rejected("RecruitSelect", v.commander, "RecruitNotFound", None)
    /\ UNCHANGED <<environment, roster, crew_select_views, team_select_views, edit_views, assigning, finalize,
                   guild_roles>>

\* crew[position] = value on the dict a view holds
WriteCrew(v, position, value) ==
    IF v.attached
    THEN SetSlot(v.team, v.slot_index,
                 IF position = "gunner"
                 THEN [crews(v.team)[v.slot_index] EXCEPT !.gunner = value]
                 ELSE [crews(v.team)[v.slot_index] EXCEPT !.driver = value])
    ELSE UNCHANGED <<crews_a, crews_b>>

\* AssignGunnerButton.callback / AssignDriverButton.callback up to the
\* `await assign_event_role(...)`: the position is written, the pool is not yet touched
AssignButton(v, position) ==
    /\ v \in recruit_views /\ v.selected_recruit # None
    /\ WriteCrew(v, position, v.selected_recruit)
    /\ assigning' = assigning (+) SetToBag({[user |-> v.commander, recruit |-> v.selected_recruit]})
    /\ assign_event_role({v.selected_recruit}, v.team)
    /\ Accepted("AssignButton", v.commander, "suspended", None)
    /\ UNCHANGED <<environment, commander_a, commander_b, recruits, subviews, finalize>>

\* the rest of the callback: recruits.remove(recruit) raises ValueError when absent
AssignButtonResume(p) ==
    /\ p \in BagToSet(assigning)
    /\ IF InList(p.recruit, recruits)
       THEN /\ recruits' = ListRemove(recruits, p.recruit)
            /\ last' = Reply("AssignButtonResume", p.user, "ok", None)
       ELSE /\ UNCHANGED recruits
            /\ last' = Reply("AssignButtonResume", p.user, "ValueError", None)
    /\ assigning' = assigning (-) SetToBag({p})
    /\ UNCHANGED <<environment, commander_a, commander_b, crews_a, crews_b, subviews, finalize, guild_roles,
                   ops>>

\* --------------------------------------------------------------- crew editing
\* UpdateGunnerSelect.callback / UpdateDriverSelect.callback: view_parent is the
\* EditGunnerView / EditDriverView, which has only `parent`; reading
\* view_parent.main_view (values given) or view_parent.crew (no values) raises
\* AttributeError before anything is checked or written
UpdateSelect(v, position, values) ==
    /\ v \in edit_views
    /\ Rejected(IF position = "gunner" THEN "UpdateGunnerSelect" ELSE "UpdateDriverSelect",
                v.user, "AttributeError", None)
    /\ UNCHANGED <<environment, roster, subviews, assigning, finalize, guild_roles>>

\* ------------------------------------------------------------------ timeouts
\* View(timeout=300): an open sub-view stops accepting interactions
CrewSelectViewTimeout(v) ==
    /\ v \in crew_select_views
    /\ crew_select_views' = crew_select_views \ {v}
    /\ UNCHANGED <<environment, roster, team_select_views, recruit_views, edit_views, assigning, finalize,
                   guild_roles, last, ops>>

TeamSelectViewTimeout(v) ==
    /\ v \in team_select_views
    /\ team_select_views' = team_select_views \ {v}
    /\ UNCHANGED <<environment, roster, crew_select_views, recruit_views, edit_views, assigning, finalize,
                   guild_roles, last, ops>>

RecruitSelectionViewTimeout(v) ==
    /\ v \in recruit_views
    /\ recruit_views' = recruit_views \ {v}
    /\ UNCHANGED <<environment, roster, crew_select_views, team_select_views, edit_views, assigning, finalize,
                   guild_roles, last, ops>>

EditCrewViewTimeout(v) ==
    /\ v \in edit_views
    /\ edit_views' = edit_views \ {v}
    /\ UNCHANGED <<environment, roster, crew_select_views, team_select_views, recruit_views, assigning, finalize,
                   guild_roles, last, ops>>

\* ------------------------------------------------------- the view of another event
\* faulty variant: the lists are attributes of the class, one object for all views
ListObject_ClassLevel(view, field) == <<1, field>>

\* the list object __init__ binds to self.crews_a / self.crews_b / self.recruits of
\* view number `view`: `[None] * MAX_CREWS_PER_TEAM` and `[]` make a new one each time
ListObject(view, field) == <<view, field>>

\* the list the other view (number 2) reaches through one of its attributes: this
\* view's list (number 1) when both attributes are bound to one object
OtherList(field) ==
    IF ListObject(2, field) = ListObject(1, field)
    THEN IF field = "crews_a" THEN crews_a ELSE IF field = "crews_b" THEN crews_b ELSE recruits
    ELSE other_view[field]

\* an in-place write (list[i] = x, append, remove) to that list
OtherListWrite(field, value) ==
    IF ListObject(2, field) = ListObject(1, field)
    THEN IF field = "crews_a" THEN crews_a' = value
         ELSE IF field = "crews_b" THEN crews_b' = value ELSE recruits' = value
    ELSE TRUE

\* the fields of the other view after a callback that rebinds its commanders and
\* writes its lists; a list shared with this view is not held in other_view
OtherWrite(cmd_a, cmd_b, new_a, new_b, new_recruits) ==
    /\ OtherListWrite("crews_a", new_a)
    /\ OtherListWrite("crews_b", new_b)
    /\ OtherListWrite("recruits", new_recruits)
    /\ other_view' =
          [commander_a |-> cmd_a, commander_b |-> cmd_b,
           crews_a |-> IF ListObject(2, "crews_a") = ListObject(1, "crews_a")
                       THEN other_view.crews_a ELSE new_a,
           crews_b |-> IF ListObject(2, "crews_b") = ListObject(1, "crews_b")
                       THEN other_view.crews_b ELSE new_b,
           recruits |-> IF ListObject(2, "recruits") = ListObject(1, "recruits")
                        THEN other_view.recruits ELSE new_recruits]
    /\ IF ListObject(2, "crews_a") = ListObject(1, "crews_a") THEN TRUE ELSE UNCHANGED crews_a
    /\ IF ListObject(2, "crews_b") = ListObject(1, "crews_b") THEN TRUE ELSE UNCHANGED crews_b
    /\ IF ListObject(2, "recruits") = ListObject(1, "recruits") THEN TRUE ELSE UNCHANGED recruits
    /\ UNCHANGED <<commander_a, commander_b>>

\* EventSignupView.is_user_registered with self = the other view
other_is_user_registered(user) ==
    \/ user \in {other_view.commander_a, other_view.commander_b}
    \/ \E i \in SlotIdx : OtherList("crews_a")[i] # NoCrew
                           /\ user \in CrewMembers(OtherList("crews_a")[i])
    \/ \E i \in SlotIdx : OtherList("crews_b")[i] # NoCrew
                           /\ user \in CrewMembers(OtherList("crews_b")[i])
    \/ InList(user, OtherList("recruits"))

\* CommanderSelect.callback with view_ref = the other view
OtherCommanderSelect(user, team) ==
    /\ IF other_is_user_registered(user)
       THEN /\ UNCHANGED <<roster, other_view>>
            /\ Rejected("OtherCommanderSelect", user, "AlreadyRegistered", None)
       ELSE /\ OtherWrite(IF team = "A" THEN user ELSE other_view.commander_a,
                          IF team = "B" THEN user ELSE other_view.commander_b,
                          OtherList("crews_a"), OtherList("crews_b"), OtherList("recruits"))
            /\ Accepted("OtherCommanderSelect", user, "ok", None)
    /\ UNCHANGED <<subviews, assigning, finalize, guild_roles, profile_store>>

\* RecruitMeButton.callback with view_ref = the other view
OtherRecruitMeButton(user) ==
    /\ IF other_is_user_registered(user)
       THEN /\ UNCHANGED <<roster, other_view>>
            /\ Rejected("OtherRecruitMeButton", user, "AlreadyRegistered", None)
       ELSE /\ OtherWrite(other_view.commander_a, other_view.commander_b,
                          OtherList("crews_a"), OtherList("crews_b"),
                          Append(OtherList("recruits"), user))
            /\ Accepted("OtherRecruitMeButton", user, "ok", None)
    /\ UNCHANGED <<subviews, assigning, finalize, guild_roles, profile_store>>

\* LeaveEventButton.callback with view_ref = the other view
OtherLeaveEventButton(user) ==
    /\ OtherWrite(IF user = other_view.commander_a THEN None ELSE other_view.commander_a,
                  IF user # other_view.commander_a /\ user = other_view.commander_b
                  THEN None ELSE other_view.commander_b,
                  [i \in SlotIdx |->
                      IF OtherList("crews_a")[i] # NoCrew
                         /\ user \in CrewMembers(OtherList("crews_a")[i])
                      THEN NoCrew ELSE OtherList("crews_a")[i]],
                  [i \in SlotIdx |->
                      IF OtherList("crews_b")[i] # NoCrew
                         /\ user \in CrewMembers(OtherList("crews_b")[i])
                      THEN NoCrew ELSE OtherList("crews_b")[i]],
                  ListRemove(OtherList("recruits"), user))
    /\ IF other_is_user_registered(user)
       THEN Accepted("OtherLeaveEventButton", user, "ok", None)
       ELSE Rejected("OtherLeaveEventButton", user, "NotRegistered", None)
    /\ UNCHANGED <<subviews, assigning, finalize, guild_roles, profile_store>>

\* ------------------------------------------------------------ profile store
\* the CrewManagement cog rewrites the crews user commands: from now on
\* get_user_crews returns commander_crews
ProfileEdited(user, commander_crews) ==
    /\ profile_store' = [profile_store EXCEPT ![user] = {commander_crews}]
    /\ Accepted("ProfileEdited", user, "ok", None)
    /\ UNCHANGED <<roster, subviews, assigning, finalize, guild_roles, other_view>>

\* ------------------------------------------------------------------ finalize
\* faulty variant: the role check lets everyone through
HasAdminRole_Anyone(user) == TRUE

\* `any(role.name in ADMIN_ROLES for role in interaction.user.roles)`
HasAdminRole(user) == \E role \in UserRoles[user] : role \in ADMIN_ROLES

\* faulty variant: gunner and driver are listed even when they are the commander
CrewParticipants_All(team, crew) ==
    IF crew = NoCrew THEN <<>>
    ELSE <<<<crew.commander, team, "commander", crew.crew_name>>,
           <<crew.gunner, team, "gunner", crew.crew_name>>,
           <<crew.driver, team, "driver", crew.crew_name>>>>

\* the entries lines 1232-1237 append for one entry of a crew list
CrewParticipants(team, crew) ==
    IF crew = NoCrew THEN <<>>
    ELSE <<<<crew.commander, team, "commander", crew.crew_name>>>>
         \o (IF crew.gunner # crew.commander
             THEN <<<<crew.gunner, team, "gunner", crew.crew_name>>>> ELSE <<>>)
         \o (IF crew.driver # crew.commander
             THEN <<<<crew.driver, team, "driver", crew.crew_name>>>> ELSE <<>>)

RECURSIVE TeamParticipants(_, _, _)
TeamParticipants(team, crew_list, i) ==
    IF i >= MAX_CREWS_PER_TEAM THEN <<>>
    ELSE CrewParticipants(team, crew_list[i]) \o TeamParticipants(team, crew_list, i + 1)

RECURSIVE RecruitParticipants(_)
RecruitParticipants(list) ==
    IF list = <<>> THEN <<>>
    ELSE <<<<Head(list), None, "recruit", None>>>> \o RecruitParticipants(Tail(list))

\* EndEventButton.callback, "Get all participants"
BuildParticipants ==
    (IF commander_a # None THEN <<<<commander_a, "A", "commander", None>>>> ELSE <<>>)
    \o (IF commander_b # None THEN <<<<commander_b, "B", "commander", None>>>> ELSE <<>>)
    \o TeamParticipants("A", crews_a, 0)
    \o TeamParticipants("B", crews_b, 0)
    \o RecruitParticipants(recruits)

\* the signups table is a bag of rows; event_id is the same in every row of the view
\* faulty variant: a plain INSERT, the row is added whatever the table holds
Upsert_InsertOnly(table, row) == table (+) SetToBag({row})

\* INSERT OR REPLACE INTO signups: the table is keyed by (event_id, user_id), the
\* rows of that key are replaced by the new row
Upsert(table, row) ==
    [r \in {x \in DOMAIN table : x.user_id # row.user_id} |-> table[r]] (+) SetToBag({row})

\* faulty variant: the first upsert that raises ends the loop
RECURSIVE SaveSignups_StopsAtFailure(_, _, _, _)
SaveSignups_StopsAtFailure(table, participants, j, failing) ==
    IF j > Len(participants) \/ j \in failing THEN table
    ELSE LET p == participants[j]
             row == [user_id |-> p[1],
                     signup_type |-> IF p[3] # "recruit" THEN "crew" ELSE "recruit",
                     team |-> p[2], role |-> p[3], crew_name |-> p[4]]
         IN SaveSignups_StopsAtFailure(IF p[1] = None THEN table ELSE Upsert(table, row),
                                       participants, j + 1, failing)

\* the loop over the participants from index j on, each upsert in its own try;
\* user.id of a None participant raises inside the try and so does an upsert whose
\* index is in `failing`: the row is skipped and the loop goes on
RECURSIVE SaveSignups(_, _, _, _)
SaveSignups(table, participants, j, failing) ==
    IF j > Len(participants) THEN table
    ELSE LET p == participants[j]
             row == [user_id |-> p[1],
                     signup_type |-> IF p[3] # "recruit" THEN "crew" ELSE "recruit",
                     team |-> p[2], role |-> p[3], crew_name |-> p[4]]
         IN SaveSignups(IF p[1] = None \/ j \in failing THEN table ELSE Upsert(table, row),
                        participants, j + 1, failing)

\* the index of the next participant with a team, from index i on; 0 when none is left
NextTeamParticipant(participants, i) ==
    IF \E k \in i..Len(participants) : participants[k][2] # None
    THEN CHOOSE k \in i..Len(participants) :
            participants[k][2] # None /\ \A j \in i..(k - 1) : participants[j][2] = None
    ELSE 0

\* event_category.channels, in the order the loop deletes them
ChannelOrder == <<"text", "voice_allies", "voice_axis">>
\* faulty variant: only the voice channels are listed
ChannelList_VoiceOnly ==
    SelectSeq(ChannelOrder, LAMBDA c : c \in event_channels /\ c # "text")
ChannelList == SelectSeq(ChannelOrder, LAMBDA c : c \in event_channels)

\* Each finalize action resumes one suspended `await` of EndEventButton.callback and
\* runs the callback on to its next `await`; pc names the call being awaited.
\* "Disable all buttons", then `await self.view_ref.message.edit(...)`
ToEdit(task) == [task EXCEPT !.pc = "edit"]

\* "Delete event roles": both roles are looked up, then deleted one after the other
ToRoles(task, roles) ==
    IF "Allies" \in roles THEN [task EXCEPT !.pc = "role_allies", !.roles = roles]
    ELSE IF "Axis" \in roles THEN [task EXCEPT !.pc = "role_axis", !.roles = roles]
    ELSE ToEdit(task)

\* "Delete event category and all channels"
ToTeardown(task) ==
    IF event_category
    THEN IF ChannelList # <<>>
         THEN [task EXCEPT !.pc = "channel", !.channels = ChannelList]
         ELSE [task EXCEPT !.pc = "category"]
    ELSE ToRoles(task, event_roles)

\* "Remove all event roles from participants", from participant i on
ToRevoke(task, i) ==
    IF NextTeamParticipant(task.participants, i) # 0
    THEN [task EXCEPT !.pc = "revoke", !.i = NextTeamParticipant(task.participants, i)]
    ELSE ToTeardown(task)

\* a step of invocation k that leaves it as `task`; reaching the message.edit means
\* the children of the main view were disabled on the way
Resume(k, task) ==
    /\ ends' = [ends EXCEPT ![k] = task]
    /\ disabled' = (disabled \/ task.pc = "edit")

Awaiting(k, pc) == k \in 1..Len(ends) /\ ends[k].pc = pc

\* the external call a step resumes from succeeded (ok) or raised; fail_budget
\* bounds how many calls raise in a run
Outcome(ok) ==
    IF ok THEN UNCHANGED fail_budget ELSE fail_budget > 0 /\ fail_budget' = fail_budget - 1

\* the upserts that may raise: none, or the one of a participant among the first
\* MaxFailIndex of the list
FailingUpserts(participants) ==
    {{}} \cup {{j} : j \in 1..(IF Len(participants) < MaxFailIndex
                               THEN Len(participants) ELSE MaxFailIndex)}

\* EndEventButton.callback up to `await interaction.response.defer(...)`
EndEventButton(user) ==
    /\ ~ui_disabled
    /\ IF ~HasAdminRole(user)
       THEN /\ UNCHANGED <<ends, end_budget>>
            /\ Rejected("EndEventButton", user, "Unauthorized", None)
       ELSE /\ end_budget > 0 /\ end_budget' = end_budget - 1
            /\ ends' = Append(ends, [pc |-> "defer", participants |-> <<>>, i |-> 0,
                                     channels |-> <<>>, channels_deleted |-> 0, roles |-> {},
                                     role_removal_count |-> 0, not_failed |-> 0])
            /\ Accepted("EndEventButton", user, "deferred", None)
    /\ UNCHANGED <<environment, roster, subviews, assigning, signups, event_status, event_channels,
                   event_category, disabled, ui_disabled, fail_budget, guild_roles>>

\* after the defer: the participant list, the signup rows, the event status.  The
\* status UPDATE sits outside the per-row try: when it raises, the outer `except`
\* sends the error and the callback ends
EndSaveParticipants(k, failing, status_ok) ==
    /\ Awaiting(k, "defer")
    /\ failing \in FailingUpserts(BuildParticipants)
    /\ IF failing = {} THEN Outcome(status_ok) ELSE status_ok /\ Outcome(FALSE)
    /\ signups' = SaveSignups(signups, BuildParticipants, 1, failing)
    /\ IF status_ok
       THEN /\ event_status' = "Completed"
            /\ Resume(k, ToRevoke([ends[k] EXCEPT !.participants = BuildParticipants], 1))
            /\ UNCHANGED last
       ELSE /\ UNCHANGED <<event_status, disabled>>
            /\ ends' = [ends EXCEPT ![k] = [@ EXCEPT !.participants = BuildParticipants,
                                                     !.pc = "failed"]]
            /\ last' = Reply("EndEventButton", None, "error", None)
    /\ UNCHANGED <<environment, roster, subviews, assigning, end_budget, event_channels, event_category, guild_roles,
                   ui_disabled, ops>>

\* after one `await armor_events_cog.remove_event_role(user, ...)`: True when roles
\* were found on the user and removed, None when the user held none, False when the
\* call raised (always for a None user); only True is counted
EndRoleRemoved(k, ok) ==
    /\ Awaiting(k, "revoke")
    /\ Outcome(ok)
    /\ LET user == ends[k].participants[ends[k].i][1]
           raised == user = None \/ ~ok
           removed == ~raised /\ RolesOf(user) # {}
       IN /\ held_roles' = IF removed THEN held_roles \ RolesOf(user) ELSE held_roles
          /\ Resume(k, ToRevoke([ends[k] EXCEPT
                                    !.role_removal_count = IF removed THEN @ + 1 ELSE @,
                                    !.not_failed = IF raised THEN @ ELSE @ + 1],
                                ends[k].i + 1))
    /\ UNCHANGED <<environment, roster, subviews, assigning, end_budget, signups, event_status, event_channels,
                   event_category, event_roles, ui_disabled, last, ops>>

\* after one `await channel.delete(...)`: a delete that raised (the call failed, or
\* the channel was already gone) is logged and not counted
EndChannelDeleted(k, ok) ==
    /\ Awaiting(k, "channel")
    /\ Outcome(ok)
    /\ LET channel == Head(ends[k].channels)
           task == [ends[k] EXCEPT
                       !.channels = Tail(@),
                       !.channels_deleted = IF ok /\ channel \in event_channels
                                            THEN @ + 1 ELSE @]
       IN /\ Resume(k, IF task.channels # <<>> THEN task ELSE [task EXCEPT !.pc = "category"])
          /\ event_channels' = IF ok THEN event_channels \ {channel} ELSE event_channels
    /\ UNCHANGED <<environment, roster, subviews, assigning, end_budget, signups, event_status, event_category,
                   guild_roles, ui_disabled, last, ops>>

\* after `await event_category.delete(...)`
EndCategoryDeleted(k, ok) ==
    /\ Awaiting(k, "category")
    /\ Outcome(ok)
    /\ Resume(k, ToRoles(ends[k], event_roles))
    /\ event_category' = (event_category /\ ~ok)
    /\ UNCHANGED <<environment, roster, subviews, assigning, end_budget, signups, event_status, event_channels,
                   guild_roles, ui_disabled, last, ops>>

\* a guild role that is deleted is gone from every member
DeleteRole(role, ok) ==
    /\ event_roles' = IF ok THEN event_roles \ {role} ELSE event_roles
    /\ held_roles' = IF ok THEN {p \in held_roles : p[2] # role} ELSE held_roles

\* after `await role.delete(...)` of the Allies role, then of the Axis role
EndRoleDeleted(k, ok) ==
    /\ k \in 1..Len(ends) /\ ends[k].pc \in {"role_allies", "role_axis"}
    /\ Outcome(ok)
    /\ IF ends[k].pc = "role_allies"
       THEN /\ DeleteRole("Allies", ok)
            /\ Resume(k, IF "Axis" \in ends[k].roles
                         THEN [ends[k] EXCEPT !.pc = "role_axis"] ELSE ToEdit(ends[k]))
       ELSE /\ DeleteRole("Axis", ok)
            /\ Resume(k, ToEdit(ends[k]))
    /\ UNCHANGED <<environment, roster, subviews, assigning, end_budget, signups, event_status, event_channels,
                   event_category, ui_disabled, last, ops>>

\* after `await self.view_ref.message.edit(embed=embed, view=self.view_ref)`: the
\* message shows the disabled controls and the summary is sent; when the edit
\* raised, the outer `except` sends the error instead
EndMessageEdited(k, ok) ==
    /\ Awaiting(k, "edit")
    /\ Outcome(ok)
    /\ ends' = [ends EXCEPT ![k] = [ends[k] EXCEPT !.pc = IF ok THEN "done" ELSE "failed"]]
    /\ ui_disabled' = (ui_disabled \/ ok)
    /\ last' = Reply("EndEventButton", None, IF ok THEN "ok" ELSE "error", None)
    /\ UNCHANGED <<environment, roster, subviews, assigning, end_budget, signups, event_status, event_channels,
                   event_category, guild_roles, disabled, ops>>

\* ------------------------------------------------------------ specification
\* the roster fields EventSignupView.__init__ sets
EventSignupView_init ==
    [commander_a |-> None, commander_b |-> None,
     crews_a |-> [i \in SlotIdx |-> NoCrew], crews_b |-> [i \in SlotIdx |-> NoCrew],
     recruits |-> <<>>]

\* EventSignupView.__init__: the roster right after construction
Construction ==
    /\ commander_a = None /\ commander_b = None
    /\ crews_a = [i \in SlotIdx |-> NoCrew]
    /\ crews_b = [i \in SlotIdx |-> NoCrew]
    /\ recruits = <<>>
    /\ crew_select_views = {} /\ recruit_views = {}
    /\ held_roles = {}

\* the crew a profile join of `user` with no gunner and driver set leaves in a slot
SelfCrew(user) ==
    [commander |-> user, crew_name |-> "Wolves", gunner |-> user, driver |-> user,
     persistent_crew_id |-> "p_" \o user]

\* the other event: u2 took its Allies commander seat, u3 joined Axis with a profile
\* crew, u1 pressed Recruit Me
OtherRoster ==
    [commander_a |-> "u2", commander_b |-> None,
     crews_a |-> [i \in SlotIdx |-> NoCrew],
     crews_b |-> [i \in SlotIdx |-> IF i = 0 THEN SelfCrew("u3") ELSE NoCrew],
     recruits |-> <<"u1">>]

\* Allies full: u1 joined Allies with a profile crew, then u4, u5, ... did the same;
\* u3 pressed Join Allies Crew, picked u2 as gunner and themself as driver, and has
\* the crew name modal open
OtherOrder == <<"u4", "u5", "u6", "u7">>
AlliesFull ==
    /\ commander_a = None /\ commander_b = None
    /\ crews_a = [i \in SlotIdx |-> IF i = 0 THEN SelfCrew("u1") ELSE SelfCrew(OtherOrder[i])]
    /\ crews_b = [i \in SlotIdx |-> NoCrew]
    /\ recruits = <<>>
    /\ crew_select_views = {[team |-> "A", commander |-> "u3", gunner |-> "u2", modal |-> "u3"]}
    /\ recruit_views = {}
    /\ held_roles = {<<crews_a[i].commander, "Allies">> : i \in SlotIdx}
                     \cup {<<"u3", "Allies">>, <<"u2", "Allies">>}

\* u4 and u5 took the two commander seats, u1 joined Allies with the profile crew
\* (u1, u2, u3), u6 and u7 pressed Recruit Me; u1 then pressed Recruit Players and
\* selected u6, and has the position buttons open
CommandersCrewRecruits ==
    /\ commander_a = "u4" /\ commander_b = "u5"
    /\ crews_a = [i \in SlotIdx |->
                    IF i = 0
                    THEN [commander |-> "u1", crew_name |-> "Wolves", gunner |-> "u2",
                          driver |-> "u3", persistent_crew_id |-> "p_u1"]
                    ELSE NoCrew]
    /\ crews_b = [i \in SlotIdx |-> NoCrew]
    /\ recruits = <<"u6", "u7">>
    /\ crew_select_views = {}
    /\ recruit_views = {[commander |-> "u1", team |-> "A", slot_index |-> 0, attached |-> TRUE,
                         options |-> {"u6", "u7"}, selected_recruit |-> "u6"]}
    /\ held_roles = {<<"u4", "Allies">>, <<"u5", "Axis">>, <<"u1", "Allies">>,
                     <<"u2", "Allies">>, <<"u3", "Allies">>,
                     <<"u6", "Participant">>, <<"u7", "Participant">>}

\* the state after construction, or one of two rosters the callbacks above lead to
\* from it, with `presses` End Event presses by admins and `failures` failing
\* external calls still to come
Start(presses, failures) ==
    /\ Construction \/ AlliesFull \/ CommandersCrewRecruits
    /\ team_select_views = {} /\ edit_views = {}
    /\ assigning = EmptyBag
    /\ ends = <<>>
    /\ signups = EmptyBag /\ event_status = "Scheduled"
    /\ event_channels = {"text", "voice_allies", "voice_axis"} /\ event_category = TRUE
    /\ event_roles = {"Allies", "Axis"}
    /\ disabled = FALSE /\ ui_disabled = FALSE
    /\ end_budget = presses /\ fail_budget = failures
    /\ last = Reply("init", None, "ok", None)
    /\ ops = 0

\* the content of the profile store is not known: a press may find any crew list
AnyStore == [u \in Users |-> ProfileCrewLists(u)]

\* the content of the profile store is known: nobody has a crew, or everybody
\* commands a crew of the same kind
KnownStores ==
    {[u \in Users |-> {<<>>}]}
        \cup {[u \in Users |-> {<<ProfileOf(u, kind)>>}] : kind \in ProfileKinds}

\* signup and one finalize whose external calls all succeed
Init == Start(1, 0) /\ profile_store = AnyStore /\ other_view = EventSignupView_init

\* finalize alone: repeated presses, failing external calls
EndInit ==
    Start(MaxEnds, MaxFails) /\ profile_store = AnyStore /\ other_view = EventSignupView_init

\* profile joins, with the edits of the profile store as steps
ProfileInit ==
    Start(0, 0) /\ profile_store \in KnownStores /\ other_view = EventSignupView_init

\* two events: this view as above, the other one with a small roster
TwoInit == Start(1, 0) /\ profile_store = AnyStore /\ other_view = OtherRoster

SignupNext ==
    \/ \E u \in Users, t \in Teams : CommanderSelect(u, t)
    \/ \E u \in Users, t \in Teams : JoinCrewButton(u, t)
    \/ \E u \in Users : \E cc \in profile_store[u] : JoinWithCrewButton(u, cc)
    \/ \E u \in Users : RecruitMeButton(u)
    \/ \E u \in Users : RecruitPlayersButton(u)
    \/ \E u \in Users : EditCrewButton(u)
    \/ \E u \in Users : LeaveEventButton(u)
    \/ \E v \in crew_select_views, u \in Users : GunnerSelect(v, u)
    \/ \E v \in crew_select_views, u \in Users : DriverSelect(v, u)
    \/ \E v \in crew_select_views, n \in NameInputs : CrewNameModal_on_submit(v, n)
    \/ \E v \in team_select_views, t \in Teams : join_with_crew(v, t)
    \/ \E v \in recruit_views, u \in Identities : RecruitSelect(v, u)
    \/ \E v \in recruit_views, p \in Positions : AssignButton(v, p)
    \/ \E p \in BagToSet(assigning) : AssignButtonResume(p)
    \/ \E v \in edit_views, p \in Positions, vals \in {<<>>} \cup {<<u>> : u \in Users} :
          UpdateSelect(v, p, vals)
    \/ \E v \in crew_select_views : CrewSelectViewTimeout(v)
    \/ \E v \in team_select_views : TeamSelectViewTimeout(v)
    \/ \E v \in recruit_views : RecruitSelectionViewTimeout(v)
    \/ \E v \in edit_views : EditCrewViewTimeout(v)

\* the event loop resumes a callback once the call it awaits has returned or raised
EndSteps ==
    \/ \E k \in 1..MaxEnds, ok \in BOOLEAN :
          \E failing \in SUBSET (1..MaxFailIndex) : EndSaveParticipants(k, failing, ok)
    \/ \E k \in 1..MaxEnds, ok \in BOOLEAN : EndRoleRemoved(k, ok)
    \/ \E k \in 1..MaxEnds, ok \in BOOLEAN : EndChannelDeleted(k, ok)
    \/ \E k \in 1..MaxEnds, ok \in BOOLEAN : EndCategoryDeleted(k, ok)
    \/ \E k \in 1..MaxEnds, ok \in BOOLEAN : EndRoleDeleted(k, ok)
    \/ \E k \in 1..MaxEnds, ok \in BOOLEAN : EndMessageEdited(k, ok)

EndNext ==
    \/ \E u \in Users : EndEventButton(u)
    \/ EndSteps

Next == SignupNext \/ EndNext

Spec == Init /\ [][Next]_vars

\* every call Discord or the database was given returns or raises, and the callback
\* that awaits it is resumed
EndSpec == EndInit /\ [][EndNext]_vars /\ WF_vars(EndSteps)

ProfileNext ==
    \/ \E u \in Users : \E cc \in ProfileCrewLists(u) : ProfileEdited(u, cc)
    \/ \E u \in Users : \E cc \in profile_store[u] : JoinWithCrewButton(u, cc)
    \/ \E v \in team_select_views, t \in Teams : join_with_crew(v, t)
    \/ \E v \in crew_select_views, n \in NameInputs : CrewNameModal_on_submit(v, n)
    \/ \E v \in recruit_views, p \in Positions : AssignButton(v, p)
    \/ \E p \in BagToSet(assigning) : AssignButtonResume(p)
    \/ \E u \in Users : LeaveEventButton(u)
    \/ \E v \in crew_select_views : CrewSelectViewTimeout(v)
    \/ \E v \in team_select_views : TeamSelectViewTimeout(v)

ProfileSpec == ProfileInit /\ [][ProfileNext]_vars

\* the callbacks of the other event's view
OtherNext ==
    \/ \E u \in Users, t \in Teams : OtherCommanderSelect(u, t)
    \/ \E u \in Users : OtherRecruitMeButton(u)
    \/ \E u \in Users : OtherLeaveEventButton(u)

TwoEventNext == SignupNext \/ EndNext \/ OtherNext

TwoEventSpec == TwoInit /\ [][TwoEventNext]_vars

\* ----------------------------------------------------------------- properties
\* crews_a / crews_b after the step
crewsNext(team) == IF team = "A" THEN crews_a' ELSE crews_b'

OccupiedSlots == {s \in Teams \X SlotIdx : crews(s[1])[s[2]] # NoCrew}
OccupiedIdx(team) == {i \in SlotIdx : crews(team)[i] # NoCrew}
Full(team) == OccupiedIdx(team) = SlotIdx

\* the step fills slot i of faction team, which was empty
Allocates(team, i) == crews(team)[i] = NoCrew /\ crewsNext(team)[i] # NoCrew

\* in how many of commander_a, commander_b, the crew slots and the pool entries
\* identity u is found
PlaceCount(u) ==
    (IF commander_a = u THEN 1 ELSE 0)
    + (IF commander_b = u THEN 1 ELSE 0)
    + Cardinality({s \in OccupiedSlots :
                     u \in {crews(s[1])[s[2]].commander, crews(s[1])[s[2]].gunner,
                            crews(s[1])[s[2]].driver}})
    + Cardinality({k \in 1..Len(recruits) : recruits[k] = u})
Occupies(u) == PlaceCount(u) > 0

\* C1: while no end-event has been invoked, every identity is found in at most one
\* of commander_a, commander_b, one crew slot, the recruit pool, and inside a crew
\* only the crew's commander may also be its gunner or driver.
C1_Uniqueness ==
    ends = <<>> =>
        /\ \A u \in Identities : PlaceCount(u) <= 1
        /\ \A s \in OccupiedSlots :
              LET crew == crews(s[1])[s[2]] IN
              crew.gunner = crew.driver /\ crew.gunner \in Identities
                  => crew.gunner = crew.commander

\* C2: whenever a step fills an empty slot of a faction, every lower-indexed slot
\* of that faction is occupied at that moment, so a released slot k is used again
\* before any higher-indexed empty slot.
C2_LowestIndex ==
    [][\A t \in Teams, i \in SlotIdx :
          Allocates(t, i) => \A j \in SlotIdx : j < i => crews(t)[j] # NoCrew]_vars

\* Allies slot 0 was released by u1 and a later profile join took slot 0 again while
\* the higher slot 1 was empty
C2_Witness ==
    /\ last.op = "join_with_crew" /\ last.res = "ok"
    /\ commander_a = "u4"
    /\ crews_a[0] # NoCrew /\ crews_a[0].commander # "u1"
    /\ crews_a[1] = NoCrew

\* C3: a crew name submit or a profile join into a faction with every slot
\* occupied leaves the roster unchanged and is not accepted; it is answered as
\* team-full (a profile join only if none of its members is registered, which is
\* checked first); and an allocation into a faction whose occupied slots are
\* 0..k-1 writes index k.
C3_TeamFull ==
    [][/\ \A v \in crew_select_views, n \in NameInputs :
             CrewNameModal_on_submit(v, n) /\ Full(v.team)
                 => UNCHANGED roster /\ last'.res = "TeamFull"
       /\ \A v \in team_select_views, t \in Teams :
             join_with_crew(v, t) /\ Full(t)
                 => /\ UNCHANGED roster
                    /\ last'.res # "ok"
                    /\ (\A m \in {v.crew.commander_id, v.crew.gunner_id, v.crew.driver_id}
                                   \cap Identities : ~Occupies(m))
                          => last'.res = "TeamFull"
       /\ \A t \in Teams, i \in SlotIdx :
             Allocates(t, i) /\ OccupiedIdx(t) = 0..(Cardinality(OccupiedIdx(t)) - 1)
                 => i = Cardinality(OccupiedIdx(t))]_vars

\* a crew name was submitted for Allies while every Allies slot was occupied
C3_Witness ==
    /\ last.op = "CrewNameModal" /\ last.res = "TeamFull"
    /\ \A i \in SlotIdx : crews_a[i] # NoCrew

\* C4: when an identity that is a faction commander, in a crew position or in the
\* recruit pool selects a commander seat or presses Recruit Me, the reply is
\* AlreadyRegistered and no roster field changes.
C4_AlreadyRegistered ==
    [][\A u \in Users :
          Occupies(u) =>
              /\ \A t \in Teams :
                    CommanderSelect(u, t)
                        => UNCHANGED roster /\ last'.res = "AlreadyRegistered"
              /\ RecruitMeButton(u)
                    => UNCHANGED roster /\ last'.res = "AlreadyRegistered"]_vars

\* u1, the only registered identity and a recruit, was refused a commander seat
C4_Witness ==
    /\ last.op = "CommanderSelect" /\ last.res = "AlreadyRegistered"
    /\ recruits = <<"u1">>
    /\ commander_a = None /\ commander_b = None
    /\ OccupiedSlots = {}

\* C5: a profile join whose crew has a commander, gunner or driver that is
\* registered changes no roster field and is answered MemberAlreadyRegistered,
\* naming a member of that crew who is registered.
C5_JoinConflict ==
    [][\A v \in team_select_views, t \in Teams :
          LET ids == {v.crew.commander_id, v.crew.gunner_id, v.crew.driver_id}
                        \cap Identities
          IN join_with_crew(v, t) /\ (\E m \in ids : Occupies(m))
                => /\ UNCHANGED roster
                   /\ last'.res = "MemberAlreadyRegistered"
                   /\ last'.named \in ids
                   /\ Occupies(last'.named)]_vars

\* the profile join of (u1, u2, u3) was refused naming the driver u3, who is in the
\* pool; no crew slot exists
C5_Witness ==
    /\ last.op = "join_with_crew" /\ last.res = "MemberAlreadyRegistered"
    /\ last.named = "u3"
    /\ recruits = <<"u3">>
    /\ OccupiedSlots = {}

\* C6: a slot a profile join fills holds no identity that was registered anywhere
\* in the roster in the state the join ran in.
C6_CheckThenAllocate ==
    [][\A v \in team_select_views, t \in Teams, i \in SlotIdx :
          join_with_crew(v, t) /\ Allocates(t, i)
              => \A m \in CrewMembers(crewsNext(t)[i]) \cap Identities : ~Occupies(m)]_vars

\* a profile join was accepted after another member had entered the pool while its
\* team selection was open
C6_Witness ==
    /\ last.op = "join_with_crew" /\ last.res = "ok"
    /\ commander_a = None
    /\ Len(recruits) = 1 /\ PlaceCount(recruits[1]) = 1
    /\ OccupiedSlots # {}

\* C7: once an end-event invocation has completed, no step changes commander_a,
\* commander_b, crews_a, crews_b or the recruit pool.
C7_FinalizeFreeze ==
    [][(\E k \in 1..Len(ends) : ends[k].pc = "done") => UNCHANGED roster]_vars

\* C8: at most one end-event invocation gets past the authorization check and the
\* defer into the finalize sequence.
C8_FinalizeOnce ==
    Cardinality({k \in 1..Len(ends) : ends[k].pc # "defer"}) <= 1

\* C9: an end-event press by a user none of whose roles is in ADMIN_ROLES is
\* answered Unauthorized and starts nothing: no invocation is in flight, signups,
\* event status, channels, category and roles are untouched, the roster is
\* unchanged and the controls stay enabled.
C9_Unauthorized ==
    [][\A u \in Users :
          (\A role \in UserRoles[u] : role \notin ADMIN_ROLES) /\ EndEventButton(u)
              => UNCHANGED <<roster, finalize, guild_roles>> /\ last'.res = "Unauthorized"]_vars

\* an end-event press was refused and nothing of the finalize sequence has happened
C9_Witness ==
    /\ last.op = "EndEventButton" /\ last.res = "Unauthorized"
    /\ ends = <<>> /\ signups = EmptyBag /\ event_status = "Scheduled"
    /\ ~disabled /\ ~ui_disabled

\* how often entry e must be listed for the current roster
ExpectedCount(e) ==
    (IF commander_a # None /\ e = <<commander_a, "A", "commander", None>> THEN 1 ELSE 0)
    + (IF commander_b # None /\ e = <<commander_b, "B", "commander", None>> THEN 1 ELSE 0)
    + Cardinality({s \in OccupiedSlots :
                     LET crew == crews(s[1])[s[2]] IN
                     e = <<crew.commander, s[1], "commander", crew.crew_name>>})
    + Cardinality({s \in OccupiedSlots :
                     LET crew == crews(s[1])[s[2]] IN
                     crew.gunner # crew.commander
                     /\ e = <<crew.gunner, s[1], "gunner", crew.crew_name>>})
    + Cardinality({s \in OccupiedSlots :
                     LET crew == crews(s[1])[s[2]] IN
                     crew.driver # crew.commander
                     /\ e = <<crew.driver, s[1], "driver", crew.crew_name>>})
    + (IF e[2] = None /\ e[3] = "recruit" /\ e[4] = None
       THEN Cardinality({k \in 1..Len(recruits) : recruits[k] = e[1]}) ELSE 0)

\* how many entries must be listed for the current roster
ExpectedTotal ==
    (IF commander_a # None THEN 1 ELSE 0) + (IF commander_b # None THEN 1 ELSE 0)
    + Cardinality(OccupiedSlots)
    + Cardinality({s \in OccupiedSlots : crews(s[1])[s[2]].gunner # crews(s[1])[s[2]].commander})
    + Cardinality({s \in OccupiedSlots : crews(s[1])[s[2]].driver # crews(s[1])[s[2]].commander})
    + Len(recruits)

ListsTheRoster(list) ==
    /\ Len(list) = ExpectedTotal
    /\ \A k \in 1..Len(list) :
          Cardinality({j \in 1..Len(list) : list[j] = list[k]}) = ExpectedCount(list[k])

\* C10: the participant list an end-event builds holds, for the roster it is built
\* from, each set faction commander (commander, its faction, no crew name), for
\* each occupied slot its commander (commander, crew name), its gunner and its
\* driver only where they differ from that commander, every recruit (recruit, no
\* faction), and nothing else.
C10_ParticipantList ==
    [][\A k \in 1..Len(ends) :
          ends[k].pc = "defer" /\ ends'[k].pc # "defer"
              => ListsTheRoster(ends'[k].participants)]_vars

\* two commanders, one crew of three and two recruits gave a list of 7 entries, 5
\* of them with a faction
C10_Witness ==
    \E k \in 1..Len(ends) :
        /\ Len(ends[k].participants) = 7
        /\ Cardinality({j \in 1..7 : ends[k].participants[j][2] # None}) = 5
        /\ commander_a # None /\ commander_b # None /\ Len(recruits) = 2

\* C11: the signups table of the event holds a row only for participants with a
\* faction: no row is written for a recruit.
C11_PersistenceScope ==
    \A r \in BagToSet(signups) : r.team # None /\ r.signup_type # "recruit"

\* C12: no invocation of end-event stops before the controls of the signup view
\* are disabled, whichever external call of its sequence raised.
C12_BestEffort ==
    \A k \in 1..Len(ends) : ends[k].pc = "failed" => disabled

\* C13: every end-event invocation that got past the role check eventually has
\* the controls disabled and has sent its success summary.
C13_FinalizeLiveness ==
    \A k \in 1..MaxEnds :
        (Len(ends) >= k) ~> (Len(ends) >= k /\ ends[k].pc = "done" /\ disabled)

\* C14: the role-revocation count an invocation reports equals the number of its
\* remove_event_role calls that did not raise, a call for a member who holds no
\* event role included.
C14_RevocationCount ==
    \A k \in 1..Len(ends) : ends[k].role_removal_count = ends[k].not_failed

\* C15: a leave by an identity that is nowhere in the roster is answered
\* NotRegistered and changes neither the roster nor any member's roles; after any
\* leave the leaver is nowhere in the roster, so a repeated leave is of that kind.
C15_IdempotentLeave ==
    [][\A u \in Users :
          LeaveEventButton(u)
              => /\ ~Occupies(u)
                       => UNCHANGED <<roster, guild_roles>> /\ last'.res = "NotRegistered"
                 /\ ~(Occupies(u))']_vars

\* u1 left the full Allies roster, freeing slot 0, and a further leave was answered
\* NotRegistered with the roster as the first leave had left it
C15_Witness ==
    /\ last.op = "LeaveEventButton" /\ last.res = "NotRegistered"
    /\ ops = 2
    /\ crews_a[0] = NoCrew /\ crews_a[1] # NoCrew
    /\ RolesOf("u1") = {}

\* C16: every occupied crew slot has a commander, a gunner and a driver, none of
\* them None.
C16_SelfCrewDefault ==
    \A s \in OccupiedSlots :
        /\ crews(s[1])[s[2]].commander # None
        /\ crews(s[1])[s[2]].gunner # None
        /\ crews(s[1])[s[2]].driver # None

\* C17: selecting identity x as new gunner or driver of a crew still in the roster
\* writes x into that position when x is the crew's commander or is nowhere in the
\* roster, and otherwise is answered AlreadyRegistered with the roster unchanged.
C17_EditAcceptance ==
    [][\A v \in edit_views, pos \in Positions, x \in Users :
          UpdateSelect(v, pos, <<x>>) /\ v.attached
              => IF x = crews(v.team)[v.slot_index].commander \/ ~Occupies(x)
                 THEN crewsNext(v.team)[v.slot_index][pos] = x /\ last'.res = "ok"
                 ELSE UNCHANGED roster /\ last'.res = "AlreadyRegistered"]_vars

\* C18: submitting the gunner or driver selection with nobody selected sets that
\* position of the crew to the crew's commander and changes nothing else of the
\* roster.
C18_ClearRestoresDefault ==
    [][\A v \in edit_views, pos \in Positions :
          UpdateSelect(v, pos, <<>>) /\ v.attached
              => /\ crewsNext(v.team)[v.slot_index] =
                       [crews(v.team)[v.slot_index] EXCEPT
                           ![pos] = crews(v.team)[v.slot_index].commander]
                 /\ UNCHANGED <<commander_a, commander_b, recruits>>]_vars

\* C19: an assign-as-gunner/driver press whose selected recruit is no longer in the
\* pool writes no crew position.
C19_AssignNeedsRecruit ==
    [][\A v \in recruit_views, pos \in Positions :
          AssignButton(v, pos) /\ ~InList(v.selected_recruit, recruits)
              => UNCHANGED <<crews_a, crews_b>>]_vars

IsCrewCommander(u) == \E s \in OccupiedSlots : crews(s[1])[s[2]].commander = u

\* C20: Recruit Players and Edit Crew pressed by an identity that commands no
\* occupied crew slot are answered NotCommander, open no view and change no roster
\* field; every view they open belongs to the commander of the slot it is for.
C20_CommanderOnly ==
    [][\A u \in Users :
          /\ ~IsCrewCommander(u) /\ (RecruitPlayersButton(u) \/ EditCrewButton(u))
                => UNCHANGED <<roster, subviews>> /\ last'.res = "NotCommander"
          /\ RecruitPlayersButton(u)
                => \A v \in recruit_views' \ recruit_views :
                      v.commander = u /\ crews(v.team)[v.slot_index].commander = u
          /\ EditCrewButton(u)
                => \A v \in edit_views' \ edit_views :
                      v.user = u /\ crews(v.team)[v.slot_index].commander = u]_vars

\* the gunner or the driver of the crew (u1, u2, u3) pressed Recruit Players while
\* recruits were waiting and was refused
C20_Witness ==
    /\ last.op = "RecruitPlayersButton" /\ last.res = "NotCommander"
    /\ ops = 1
    /\ crews_a[0] # NoCrew /\ crews_a[0].commander = "u1" /\ crews_a[0].gunner = "u2"
    /\ recruits # <<>>

\* C21: while an assign-as-gunner/driver callback is between its crew write and
\* its pool removal, no step changes the roster except that callback's own
\* continuation.
C21_Serialization ==
    [][assigning # EmptyBag
          => UNCHANGED roster \/ \E p \in BagToSet(assigning) : AssignButtonResume(p)]_vars

\* C22: an assign callback that removes the recruit from the pool leaves the
\* recruit as gunner or driver of a crew that is in crews_a or crews_b.
C22_NoLostUpdate ==
    [][\A p \in BagToSet(assigning) :
          AssignButtonResume(p) /\ recruits' # recruits
              => \E t \in Teams, i \in SlotIdx :
                    /\ crewsNext(t)[i] # NoCrew
                    /\ p.recruit \in {crewsNext(t)[i].gunner, crewsNext(t)[i].driver}]_vars

\* the members of a participant list whose signup row is missing from the table
Unsaved(table, participants) ==
    {participants[j][1] : j \in 1..Len(participants)}
        \ ({None} \cup {r.user_id : r \in BagToSet(table)})

\* C23: when an end-event has run its persistence loop, every participant has a
\* signup row except at most the one whose upsert raised, whatever its place in the
\* list; and the event status becomes Completed only in such a step, after the loop.
C23_IsolatedFailures ==
    [][/\ \A k \in 1..Len(ends) :
             ends[k].pc = "defer" /\ ends'[k].pc # "defer"
                 => Cardinality(Unsaved(signups', ends'[k].participants))
                        <= fail_budget - fail_budget'
       /\ event_status # "Completed" /\ event_status' = "Completed"
             => \E k \in 1..Len(ends) :
                   /\ ends[k].pc = "defer" /\ ends'[k].pc # "defer"
                   /\ Cardinality(Unsaved(signups', ends'[k].participants)) <= 1]_vars

\* the upsert of the first of 7 participants raised: its row is missing, the six
\* later participants have theirs and the status is Completed
C23_Witness ==
    /\ event_status = "Completed" /\ fail_budget = 0
    /\ \E k \in 1..Len(ends) :
          /\ Len(ends[k].participants) = 7
          /\ Unsaved(signups, ends[k].participants) = {ends[k].participants[1][1]}
          /\ Cardinality(DOMAIN signups) = 6

\* the sum of the channel counts of all end-event invocations
RECURSIVE ChannelsCounted(_)
ChannelsCounted(k) == IF k = 0 THEN 0 ELSE ends[k].channels_deleted + ChannelsCounted(k - 1)

\* C24: an invocation that finds the category queues every channel under it and
\* turns to the category only when all were tried; a channel delete, failed or
\* not, is followed by the next one or by the category delete, and the count goes
\* up exactly when the channel was deleted; a failed category delete does not end
\* the invocation; without a category no delete is tried and the count stays 0;
\* the counts add up to the channels that are gone.
C24_Teardown ==
    [][\A k \in 1..Len(ends) :
          /\ ends[k].pc # "channel" /\ ends'[k].pc = "channel"
                => /\ event_category
                   /\ {ends'[k].channels[j] : j \in 1..Len(ends'[k].channels)} = event_channels
          /\ ends[k].pc # "category" /\ ends'[k].pc = "category"
                => ends'[k].channels = <<>>
          /\ ends[k].pc = "channel" /\ ends'[k] # ends[k]
                => /\ ends'[k].channels = Tail(ends[k].channels)
                   /\ ends'[k].pc = IF ends'[k].channels = <<>> THEN "category" ELSE "channel"
                   /\ ends'[k].channels_deleted - ends[k].channels_deleted
                          = Cardinality(event_channels \ event_channels')
          /\ ends[k].pc = "category" /\ ends'[k] # ends[k]
                => /\ ends'[k].pc \in {"role_allies", "role_axis", "edit"}
                   /\ ends'[k].channels_deleted = ends[k].channels_deleted
          /\ ends[k].pc \in {"defer", "revoke"} /\ ~event_category
                => /\ ends'[k].pc \notin {"channel", "category"}
                   /\ ends'[k].channels_deleted = 0
          /\ ChannelsCounted(Len(ends)) = Len(ChannelOrder) - Cardinality(event_channels)]_vars

\* one channel delete failed: the other two channels and the category were still
\* deleted and the invocation ended reporting 2
C24_Witness ==
    /\ ~event_category /\ Cardinality(event_channels) = 1
    /\ \E k \in 1..Len(ends) : ends[k].pc = "done" /\ ends[k].channels_deleted = 2

NoDuplicates(list) == \A j, k \in 1..Len(list) : list[j] = list[k] => j = k

\* C25: the pool never lists an identity twice; a Recruit Me that is accepted adds
\* the presser at the end; every other change of the pool drops one entry and
\* keeps the others in their order.
C25_OrderedPool ==
    [][/\ NoDuplicates(recruits) /\ NoDuplicates(recruits')
       /\ \A u \in Users :
             RecruitMeButton(u) /\ last'.res = "ok" => recruits' = Append(recruits, u)
       /\ recruits' # recruits
             => \/ \E u \in Users : RecruitMeButton(u)
                \/ \E k \in 1..Len(recruits) :
                      recruits' = SubSeq(recruits, 1, k - 1)
                                  \o SubSeq(recruits, k + 1, Len(recruits))]_vars

\* u2 entered the pool behind u6 and u7, then u6 was taken out by an assignment:
\* u7 and u2 keep their order
C25_Witness ==
    /\ last.op = "AssignButtonResume" /\ last.res = "ok"
    /\ recruits = <<"u7", "u2">>

\* C27: crews_a and crews_b always have the MAX_CREWS_PER_TEAM entries 0 ..
\* MAX_CREWS_PER_TEAM - 1, each one empty or a crew with a commander, so neither
\* faction holds more than MAX_CREWS_PER_TEAM crews.
C27_FixedCapacity ==
    \A t \in Teams :
        /\ DOMAIN crews(t) = 0..(MAX_CREWS_PER_TEAM - 1)
        /\ \A i \in DOMAIN crews(t) :
              crews(t)[i] = NoCrew \/ crews(t)[i].commander \in Identities
        /\ Cardinality({i \in DOMAIN crews(t) : crews(t)[i] # NoCrew}) <= MAX_CREWS_PER_TEAM

\* a profile join into Allies found every Allies slot occupied and was refused
C27_Witness ==
    /\ last.op = "join_with_crew" /\ last.res = "TeamFull"
    /\ \A i \in SlotIdx : crews_a[i] # NoCrew

\* at most one signup row per member
OneRowPerMember(table) ==
    \A r \in DOMAIN table :
        table[r] = 1 /\ \A q \in DOMAIN table : q.user_id = r.user_id => q = r

C30_AllocatePrecondition ==
    [][\A v \in crew_select_views, n \in NameInputs, i \in SlotIdx :
          CrewNameModal_on_submit(v, n) /\ Allocates(v.team, i)
              => \A m \in {v.commander, v.gunner, v.modal} : ~Occupies(m)]_vars

\* C28: an edit of the profile store changes no roster field; a crew that stays in
\* its slot keeps its commander, its name and its profile link, and its gunner and
\* driver change only by a recruit assignment; a slot filled by a profile join holds
\* the profile the team selection was opened with and its id, whatever the store
\* holds by then; a slot filled by a crew name submit has no profile id; and slots
\* are filled by these two only.
C28_ProfileSnapshot ==
    [][/\ (\E u \in Users : \E cc \in ProfileCrewLists(u) : ProfileEdited(u, cc))
             => UNCHANGED roster
       /\ \A t \in Teams, i \in SlotIdx :
             crews(t)[i] # NoCrew /\ crewsNext(t)[i] # NoCrew
                 => /\ crewsNext(t)[i].commander = crews(t)[i].commander
                    /\ crewsNext(t)[i].crew_name = crews(t)[i].crew_name
                    /\ crewsNext(t)[i].persistent_crew_id = crews(t)[i].persistent_crew_id
                    /\ crewsNext(t)[i] # crews(t)[i]
                          => \E v \in recruit_views, p \in Positions : AssignButton(v, p)
       /\ \A v \in team_select_views, t \in Teams, i \in SlotIdx :
             join_with_crew(v, t) /\ Allocates(t, i)
                 => /\ crewsNext(t)[i].persistent_crew_id = v.crew.id
                    /\ v.crew.id # None
                    /\ crewsNext(t)[i].crew_name = v.crew.crew_name
                    /\ crewsNext(t)[i].commander = v.crew.commander_id
       /\ \A v \in crew_select_views, n \in NameInputs, i \in SlotIdx :
             CrewNameModal_on_submit(v, n) /\ Allocates(v.team, i)
                 => crewsNext(v.team)[i].persistent_crew_id = None
       /\ \A t \in Teams, i \in SlotIdx :
             Allocates(t, i)
                 => \/ \E v \in team_select_views : join_with_crew(v, t)
                    \/ \E v \in crew_select_views, n \in NameInputs :
                          CrewNameModal_on_submit(v, n)]_vars

\* u1 joined with the stored crew (u1, u2, u3); the store was then edited and no
\* longer holds a crew for u1, the slot still holds the crew and its profile id
C28_Witness ==
    /\ last.op = "ProfileEdited" /\ ops = 3
    /\ profile_store["u1"] = {<<>>}
    /\ commander_a = None
    /\ \E t \in Teams, i \in SlotIdx :
          crews(t)[i] = [commander |-> "u1", crew_name |-> "Wolves", gunner |-> "u2",
                         driver |-> "u3", persistent_crew_id |-> "p_u1"]

\* commanders, slot arrays and recruit pool as the other event's view sees them
OtherRosterFields ==
    <<other_view.commander_a, other_view.commander_b,
      OtherList("crews_a"), OtherList("crews_b"), OtherList("recruits")>>

\* C26: a callback of the other event's view changes no roster field of this
\* view, and the roster of the other view changes only by its own callbacks, not
\* by a signup, edit, leave or end-event step of this view.
C26_EventIndependence ==
    [][/\ OtherNext => UNCHANGED roster
       /\ OtherRosterFields' # OtherRosterFields => OtherNext]_vars

\* u1 is a recruit of both events and leaves the other one: still a recruit here
C26_Witness ==
    /\ last.op = "OtherLeaveEventButton" /\ last.res = "ok"
    /\ recruits = <<"u1">>
    /\ other_view.recruits = <<>> /\ other_view.commander_a = "u2"

\* C31: in every occupied crew slot, a gunner who is also the driver is the crew's
\* commander.
C31_DistinctPositions ==
    \A t \in Teams, i \in SlotIdx :
        crews(t)[i] # NoCrew /\ crews(t)[i].gunner \in Identities
        /\ crews(t)[i].gunner = crews(t)[i].driver
            => crews(t)[i].gunner = crews(t)[i].commander

\* C32: a commander seat that is taken changes only by being cleared, and it is
\* cleared only by a leave of the identity that holds it.
C32_CommanderKept ==
    [][/\ commander_a # None /\ commander_a' # commander_a
             => commander_a' = None /\ commander_a \in Users /\ LeaveEventButton(commander_a)
       /\ commander_b # None /\ commander_b' # commander_b
             => commander_b' = None /\ commander_b \in Users /\ LeaveEventButton(commander_b)]_vars

\* C33: a leave by an identity that is in the roster is accepted; it clears the
\* commander seat the leaver holds, empties every crew slot in which the leaver is
\* commander, gunner or driver, takes the leaver out of the pool and leaves every
\* other seat, slot and pool entry as it was; afterwards the leaver is nowhere in
\* the roster.
C33_LeaveReleasesSlots ==
    [][\A u \in Users :
          LeaveEventButton(u) /\ Occupies(u)
              => /\ last'.res = "ok"
                 /\ commander_a' = IF commander_a = u THEN None ELSE commander_a
                 /\ commander_b' = IF commander_b = u THEN None ELSE commander_b
                 /\ \A t \in Teams, i \in SlotIdx :
                       crewsNext(t)[i] =
                           IF crews(t)[i] # NoCrew
                              /\ u \in {crews(t)[i].commander, crews(t)[i].gunner,
                                         crews(t)[i].driver}
                           THEN NoCrew ELSE crews(t)[i]
                 /\ recruits' = SelectSeq(recruits, LAMBDA x : x # u)
                 /\ ~(Occupies(u))']_vars

\* gunner u2 left: the whole crew (u1, u2, u3) is gone from its slot, the two
\* commander seats and the pool are as before, u1 and u3 still hold their roles
C33_Witness ==
    /\ last.op = "LeaveEventButton" /\ last.res = "ok" /\ ops = 1
    /\ crews_a[0] = NoCrew
    /\ commander_a = "u4" /\ commander_b = "u5" /\ recruits = <<"u6", "u7">>
    /\ RolesOf("u2") = {} /\ RolesOf("u1") # {} /\ RolesOf("u3") # {}

\* C34: an assign-as-gunner/driver press that writes a position of a crew in the
\* roster finds that position held by the crew's commander or by nobody.
C34_AssignKeepsCrew ==
    [][\A v \in recruit_views, pos \in Positions :
          AssignButton(v, pos) /\ v.attached
              => crews(v.team)[v.slot_index][pos]
                    \in {crews(v.team)[v.slot_index].commander, None}]_vars

\* the members of the crews of a faction, and those in a crew creation under way
\* for it
FactionMembers(team) ==
    {IF team = "A" THEN commander_a ELSE commander_b}
        \cup UNION {CrewMembers(crews(team)[i]) : i \in OccupiedIdx(team)}
CreatingFor(team) ==
    UNION {{v.commander, v.gunner, v.modal} : v \in {w \in crew_select_views : w.team = team}}

\* C35: before any end-event, whoever holds the Allies (Axis) role is the Allies
\* (Axis) commander, a member of an Allies (Axis) crew, or part of a crew creation
\* for that faction that is still open.
C35_RolesFollowRoster ==
    ends = <<>> /\ assigning = EmptyBag =>
        \A h \in held_roles :
            /\ h[2] = "Allies" => h[1] \in FactionMembers("A") \cup CreatingFor("A")
            /\ h[2] = "Axis" => h[1] \in FactionMembers("B") \cup CreatingFor("B")

\* the identities of a participant list, and those in the roster
ParticipantIds(participants) ==
    {participants[j][1] : j \in 1..Len(participants)} \ {None}
Registered == {u \in Identities : Occupies(u)}

\* C36: when an end-event completes and the signup controls are shut, the
\* identities of the participant list it saved are the identities in the roster.
C36_PersistsFrozenRoster ==
    [][\A k \in 1..Len(ends) :
          ends[k].pc # "done" /\ ends'[k].pc = "done"
              => ParticipantIds(ends[k].participants) = Registered]_vars

\* C37: no identity is listed twice in the participant list of an end-event.
C37_ListedOnce ==
    \A k \in 1..Len(ends) :
        \A i, j \in 1..Len(ends[k].participants) :
            ends[k].participants[i][1] = ends[k].participants[j][1]
            /\ ends[k].participants[i][1] # None
                => i = j

\* C38: a step of a recruit assignment or of a position edit changes the roster
\* only when the member the view was opened for is, at that moment, the commander
\* of the crew slot the view is for.
C38_CommanderAtWrite ==
    [][/\ \A v \in recruit_views, pos \in Positions :
             AssignButton(v, pos) /\ roster' # roster
                 => crews(v.team)[v.slot_index].commander = v.commander
       /\ \A p \in BagToSet(assigning) :
             AssignButtonResume(p) /\ roster' # roster
                 => \E t \in Teams, i \in SlotIdx :
                       crews(t)[i] # NoCrew /\ crews(t)[i].commander = p.user
       /\ \A v \in edit_views, pos \in Positions, vals \in {<<>>} \cup {<<u>> : u \in Users} :
             UpdateSelect(v, pos, vals) /\ roster' # roster
                 => crews(v.team)[v.slot_index].commander = v.user]_vars

====
